---- MODULE Spec2Model ----
(***************************************************************************)
(* Model of ihex_binary (src/src/lib.rs): unpacking a sequence of Intel    *)
(* HEX records into a flat byte image.                                     *)
(*                                                                         *)
(* usize values keep their full width of 64 bits.  A usize is a little-endian *)
(* sequence of UsizeLimbs limbs of LimbBits bits each, so that wrapping    *)
(* and checked arithmetic are computed exactly as the machine does.        *)
(* Arithmetic overflow is build dependent in Rust: with overflow checks    *)
(* (debug profile) it panics, without them (release profile) it wraps.     *)
(* The variable overflow_checks holds the build's choice.                  *)
(***************************************************************************)
EXTENDS Integers, Sequences, FiniteSets, TLC

\* ---------------------------------------------------------------- bounds
MaxRecords == 2      \* longest record sequence the iterator yields
MaxPayload == 2      \* longest Data payload
MaxOffset == 1       \* largest Data offset
MaxBase == 1         \* largest value of a base-setting record
MaxSize == 2         \* largest binary_size / N (the smallest is 1)

\* the base offsets the inputs are drawn from
BaseOffsets == {0, 1, 15}
ReaderErrors == {"ChecksumMismatch"}

\* ------------------------------------------------------ usize arithmetic
LimbBits == 16
UsizeLimbs == 4
Limb == 65536
FillByte == 255

Pow2(k) == IF k = 0 THEN 1 ELSE IF k = 4 THEN 16 ELSE IF k = 8 THEN 256
           ELSE IF k = 12 THEN 4096 ELSE 65536

\* `x as usize` for a value that fits 31 bits (u16, small lengths)
AsUsize(n) ==
  [i \in 1..UsizeLimbs |->
     IF i = 1 THEN n % Limb ELSE IF i = 2 THEN n \div Limb ELSE 0]

RECURSIVE Carry(_, _, _)
Carry(a, b, i) ==
  IF i = 1 THEN 0 ELSE (a[i - 1] + b[i - 1] + Carry(a, b, i - 1)) \div Limb

WrappingAdd(a, b) ==
  [i \in 1..UsizeLimbs |-> (a[i] + b[i] + Carry(a, b, i)) % Limb]

AddOverflows(a, b) == Carry(a, b, UsizeLimbs + 1) = 1

RECURSIVE Borrow(_, _, _)
Borrow(a, b, i) ==
  IF i = 1 THEN 0
  ELSE IF a[i - 1] - b[i - 1] - Borrow(a, b, i - 1) < 0 THEN 1 ELSE 0

WrappingSub(a, b) ==
  [i \in 1..UsizeLimbs |-> (a[i] - b[i] - Borrow(a, b, i) + Limb) % Limb]

SubOverflows(a, b) == Borrow(a, b, UsizeLimbs + 1) = 1

\* a << k for k a multiple of 4 below the width; bits shifted out are lost
Shl(a, k) ==
  LET q == k \div LimbBits
      r == k % LimbBits
      at(i) == IF i >= 1 THEN a[i] ELSE 0
  IN [i \in 1..UsizeLimbs |->
        ((at(i - q) * Pow2(r)) % Limb) + ((at(i - q - 1) * Pow2(r)) \div Limb)]

UsizeGt(a, b) ==
  \E i \in 1..UsizeLimbs :
     /\ a[i] > b[i]
     /\ \A j \in (i + 1)..UsizeLimbs : a[j] = b[j]

UsizeLt(a, b) == UsizeGt(b, a)

\* the value of a usize that is known to be below 2^31
ToInt(a) == a[1] + a[2] * Limb

\* --------------------------------------------------------------- inputs
\* one payload of each length, all of its bytes distinct and none the fill
\* byte, so that the record a byte of the image came from can be told
Payload(n) == [i \in 1..n |-> 16 * n + i]

Payloads == {Payload(n) : n \in 0..MaxPayload}

DataRecords ==
  {[type |-> "Data", offset |-> o, value |-> v] :
     o \in 0..MaxOffset, v \in Payloads}

BaseRecords ==
  {[type |-> t, base |-> b] :
     t \in {"ExtendedSegmentAddress", "ExtendedLinearAddress"},
     b \in 0..MaxBase}

OtherRecords ==
  {[type |-> t] :
     t \in {"EndOfFile", "StartLinearAddress", "StartSegmentAddress"}}

\* the items of the iterator: Ok(Record) or Err(ReaderError)
ErrItems == {[type |-> "Err", err |-> e] : e \in ReaderErrors}

Items == DataRecords \cup BaseRecords \cup OtherRecords \cup ErrItems

RecordSeqs == UNION {[1..n -> Items] : n \in 0..MaxRecords}

\* -------------------------------------------------------------- results
Running == [tag |-> "Running"]
Ok(used) == [tag |-> "Ok", used_bytes |-> used]
Parsing(e) == [tag |-> "Parsing", err |-> e]
AddressTooHigh(addr, size) ==
  [tag |-> "AddressTooHigh", addr |-> addr, size |-> size]
Panic(msg) == [tag |-> "Panic", msg |-> msg]

\* ------------------------------------------------- the body of the loop
\* mutant: every byte of the payload is written to the first index
RECURSIVE WriteBytes_NoEnumerate(_, _, _, _, _, _)
WriteBytes_NoEnumerate(bin, base, offset, value, n, checks) ==
  IF n >= Len(value) THEN [binary |-> bin, result |-> Running]
  ELSE
    LET idx == WrappingAdd(base, AsUsize(offset))
    IN IF checks /\ AddOverflows(base, AsUsize(offset))
         THEN [binary |-> bin, result |-> Panic("attempt to add with overflow")]
       ELSE IF ~UsizeLt(idx, AsUsize(Len(bin)))
         THEN [binary |-> bin, result |-> Panic("index out of bounds")]
       ELSE WriteBytes_NoEnumerate([bin EXCEPT ![ToInt(idx) + 1] = value[n + 1]],
                                   base, offset, value, n + 1, checks)

\* for (n, b) in value.iter().enumerate() { binary[base + offset + n] = *b }
\* from position n on; an index outside the slice panics
RECURSIVE WriteBytes(_, _, _, _, _, _)
WriteBytes(bin, base, offset, value, n, checks) ==
  IF n >= Len(value) THEN [binary |-> bin, result |-> Running]
  ELSE
    LET a1 == WrappingAdd(base, AsUsize(offset))
        idx == WrappingAdd(a1, AsUsize(n))
        ovf == AddOverflows(base, AsUsize(offset)) \/ AddOverflows(a1, AsUsize(n))
    IN IF checks /\ ovf
         THEN [binary |-> bin, result |-> Panic("attempt to add with overflow")]
       ELSE IF ~UsizeLt(idx, AsUsize(Len(bin)))
         THEN [binary |-> bin, result |-> Panic("index out of bounds")]
       ELSE WriteBytes([bin EXCEPT ![ToInt(idx) + 1] = value[n + 1]],
                       base, offset, value, n + 1, checks)

\* mutant: the end address leaves the base address out
EndAddr_NoBase(base, offset, value) ==
  WrappingAdd(AsUsize(offset), AsUsize(Len(value)))

\* let end_addr = base_address + offset as usize + value.len()
EndAddr(base, offset, value) ==
  WrappingAdd(WrappingAdd(base, AsUsize(offset)), AsUsize(Len(value)))

EndAddrOverflows(base, offset, value) ==
  \/ AddOverflows(base, AsUsize(offset))
  \/ AddOverflows(WrappingAdd(base, AsUsize(offset)), AsUsize(Len(value)))

\* if end_addr > binary.len()
TooHigh(end_addr, bin) == UsizeGt(end_addr, AsUsize(Len(bin)))

\* mutant: used_bytes is set to the payload length instead of increased by it
DataArm_UsedOverwritten(st, offset, value, checks) ==
  LET end_addr == EndAddr(st.base_address, offset, value)
      len == AsUsize(Len(value))
  IN IF checks /\ EndAddrOverflows(st.base_address, offset, value)
       THEN [st EXCEPT !.result = Panic("attempt to add with overflow")]
     ELSE IF TooHigh(end_addr, st.binary)
       THEN [st EXCEPT !.result =
               AddressTooHigh(end_addr, AsUsize(Len(st.binary)))]
     ELSE
       LET w == WriteBytes(st.binary, st.base_address, offset, value, 0, checks)
       IN [st EXCEPT !.used_bytes = len,
                     !.binary = w.binary,
                     !.result = w.result]

\* mutant: a Data record with an empty payload is skipped unchecked
DataArm_SkipsEmpty(st, offset, value, checks) ==
  LET end_addr == EndAddr(st.base_address, offset, value)
      len == AsUsize(Len(value))
  IN IF Len(value) = 0 THEN st
     ELSE IF checks /\ EndAddrOverflows(st.base_address, offset, value)
       THEN [st EXCEPT !.result = Panic("attempt to add with overflow")]
     ELSE IF TooHigh(end_addr, st.binary)
       THEN [st EXCEPT !.result =
               AddressTooHigh(end_addr, AsUsize(Len(st.binary)))]
     ELSE IF checks /\ AddOverflows(st.used_bytes, len)
       THEN [st EXCEPT !.result = Panic("attempt to add with overflow")]
     ELSE
       LET w == WriteBytes(st.binary, st.base_address, offset, value, 0, checks)
       IN [st EXCEPT !.used_bytes = WrappingAdd(st.used_bytes, len),
                     !.binary = w.binary,
                     !.result = w.result]

\* the Record::Data arm; st is the state of the running call
\* (lines 93-101)
DataArm(st, offset, value, checks) ==
  LET end_addr == EndAddr(st.base_address, offset, value)
      len == AsUsize(Len(value))
  IN IF checks /\ EndAddrOverflows(st.base_address, offset, value)
       THEN [st EXCEPT !.result = Panic("attempt to add with overflow")]
     ELSE IF TooHigh(end_addr, st.binary)
       THEN [st EXCEPT !.result =
               AddressTooHigh(end_addr, AsUsize(Len(st.binary)))]
     ELSE IF checks /\ AddOverflows(st.used_bytes, len)
       THEN [st EXCEPT !.result = Panic("attempt to add with overflow")]
     ELSE
       LET w == WriteBytes(st.binary, st.base_address, offset, value, 0, checks)
       IN [st EXCEPT !.used_bytes = WrappingAdd(st.used_bytes, len),
                     !.binary = w.binary,
                     !.result = w.result]

\* mutant: the shifted value is added to the base address in force
BaseArm_Accumulates(st, base, shift, bo, checks) ==
  LET shifted == WrappingAdd(st.base_address, Shl(AsUsize(base), shift))
  IN IF checks /\ SubOverflows(shifted, AsUsize(bo))
       THEN [st EXCEPT !.result = Panic("attempt to subtract with overflow")]
     ELSE [st EXCEPT !.base_address = WrappingSub(shifted, AsUsize(bo))]

\* mutant: a base-setting record also restarts the count of used bytes
BaseArm_ResetsUsed(st, base, shift, bo, checks) ==
  LET shifted == Shl(AsUsize(base), shift)
  IN IF checks /\ SubOverflows(shifted, AsUsize(bo))
       THEN [st EXCEPT !.result = Panic("attempt to subtract with overflow")]
     ELSE [st EXCEPT !.base_address = WrappingSub(shifted, AsUsize(bo)),
                     !.used_bytes = AsUsize(0)]

\* base_address = ((base as usize) << shift) - base_offset
BaseArm(st, base, shift, bo, checks) ==
  LET shifted == Shl(AsUsize(base), shift)
  IN IF checks /\ SubOverflows(shifted, AsUsize(bo))
       THEN [st EXCEPT !.result = Panic("attempt to subtract with overflow")]
     ELSE [st EXCEPT !.base_address = WrappingSub(shifted, AsUsize(bo))]

SegmentShift == 4
LinearShift == 16

\* mutant: a parse failure rolls the buffer back to the fill value
ErrArm_RollsBack(st, err) ==
  [st EXCEPT !.result = Parsing(err),
             !.binary = [i \in 1..Len(st.binary) |-> FillByte]]

\* Err(err) => return Err(UnpackingError::Parsing(err))
ErrArm(st, err) == [st EXCEPT !.result = Parsing(err)]

\* mutant: EndOfFile does not leave the loop
EndOfFileArm_Continues(st) == st

\* Record::EndOfFile => break, and then Ok(used_bytes)
EndOfFileArm(st) == [st EXCEPT !.result = Ok(st.used_bytes)]

\* mutant: a start-address record resets the base address
StartArm_ResetsBase(st) == [st EXCEPT !.base_address = AsUsize(0)]

\* Record::StartLinearAddress(_) | Record::StartSegmentAddress { .. } => {}
StartArm(st) == st

\* one iteration of `for rec in records` on the item the iterator yields
LoopBody(st, item, bo, checks) ==
  CASE item.type = "Err" -> ErrArm(st, item.err)
    [] item.type = "Data" -> DataArm(st, item.offset, item.value, checks)
    [] item.type = "ExtendedSegmentAddress" ->
         BaseArm(st, item.base, SegmentShift, bo, checks)
    [] item.type = "ExtendedLinearAddress" ->
         BaseArm(st, item.base, LinearShift, bo, checks)
    [] item.type = "EndOfFile" -> EndOfFileArm(st)
    [] item.type \in {"StartLinearAddress", "StartSegmentAddress"} ->
         StartArm(st)

\* mutant: the base address starts at 1
EntryState_BaseOne(bin) ==
  [binary |-> bin, base_address |-> AsUsize(1), used_bytes |-> AsUsize(0),
   result |-> Running]

\* let mut base_address = 0; let mut used_bytes = 0;
EntryState(bin) ==
  [binary |-> bin, base_address |-> AsUsize(0), used_bytes |-> AsUsize(0),
   result |-> Running]

\* `for rec in records` from item i + 1 of recs on, in state st: the state
\* in which the loop is left.  The state after an iteration is bound by a
\* quantifier so that TLC evaluates it once.
RECURSIVE RunLoop(_, _, _, _, _)
RunLoop(recs, i, st, bo, checks) ==
  IF st.result # Running \/ i >= Len(recs) THEN st
  ELSE CHOOSE out \in
         {RunLoop(recs, i + 1, nx, bo, checks) :
            nx \in {LoopBody(st, recs[i + 1], bo, checks)}} : TRUE

\* unpack_records as a function of its arguments: the state it ends in,
\* with Ok(used_bytes) when the loop is left by exhaustion
unpack_records(recs, bin, bo, checks) ==
  CHOOSE out \in
    {IF st.result = Running THEN [st EXCEPT !.result = Ok(st.used_bytes)]
                            ELSE st :
       st \in {RunLoop(recs, 0, EntryState(bin), bo, checks)}} : TRUE

\* mutant: the buffer is zero-filled
Filled_Zero(n) == [i \in 1..n |-> 0]

\* vec![0xFF; binary_size] / [0xFF; N]
Filled(n) == [i \in 1..n |-> FillByte]

\* ---------------------------------------------------------------- state
VARIABLES
  records,          \* the items the iterator yields, in order
  pos,              \* how many of them have been pulled
  pc,               \* "start", "loop", "unpacked" (unpack_records returned), "done"
  binary_size,      \* argument of the call (N of to_array)
  binary,           \* the buffer
  base_offset,      \* argument of the call
  base_address,     \* local of unpack_records
  used_bytes,       \* local of unpack_records
  overflow_checks,  \* the build: TRUE panics on overflow, FALSE wraps
  result,           \* what unpack_records returned (Running before that)
  ret               \* what to_vec / to_array returned

vars == <<records, pos, pc, binary_size, binary, base_offset, base_address, used_bytes,
          overflow_checks, result, ret>>

NoRet == [tag |-> "None"]

Init ==
  /\ records \in RecordSeqs
  /\ overflow_checks \in BOOLEAN
  /\ pos = 0
  /\ pc = "start"
  /\ binary_size = 0
  /\ binary = <<>>
  /\ base_offset = 0
  /\ base_address = AsUsize(0)
  /\ used_bytes = AsUsize(0)
  /\ result = Running
  /\ ret = NoRet

\* the wrapper allocates the filled buffer and enters unpack_records
Enter(n, bo) ==
  /\ pc' = "loop"
  /\ binary_size' = n
  /\ binary' = Filled(n)
  /\ base_offset' = bo
  /\ base_address' = EntryState(Filled(n)).base_address
  /\ used_bytes' = EntryState(Filled(n)).used_bytes
  /\ UNCHANGED <<records, pos, overflow_checks, result, ret>>

to_vec ==
  \E n \in 1..MaxSize, bo \in BaseOffsets :
    /\ pc = "start"
    /\ Enter(n, bo)

\* mutant: to_array hands over a zero-filled array
to_array_ZeroFill ==
  \E n \in 1..MaxSize, bo \in BaseOffsets :
    /\ pc = "start"
    /\ pc' = "loop"
    /\ binary_size' = n
    /\ binary' = [i \in 1..n |-> 0]
    /\ base_offset' = bo
    /\ base_address' = AsUsize(0)
    /\ used_bytes' = AsUsize(0)
    /\ UNCHANGED <<records, pos, overflow_checks, result, ret>>

to_array ==
  \E n \in 1..MaxSize, bo \in BaseOffsets :
    /\ pc = "start"
    /\ Enter(n, bo)

Cur == [binary |-> binary, base_address |-> base_address,
        used_bytes |-> used_bytes, result |-> result]

\* the iterator yields its next item, of type t
Pulls(t) ==
  /\ pc = "loop"
  /\ pos < Len(records)
  /\ records[pos + 1].type = t

\* the loop body ran on the item pulled and left the call in state st
Iterated(st) ==
  /\ binary' = st.binary
  /\ base_address' = st.base_address
  /\ used_bytes' = st.used_bytes
  /\ result' = st.result
  /\ pc' = IF st.result = Running THEN "loop" ELSE "unpacked"
  /\ pos' = pos + 1
  /\ UNCHANGED <<records, binary_size, base_offset, overflow_checks, ret>>

RecData ==
  /\ Pulls("Data")
  /\ \E st \in {LoopBody(Cur, records[pos + 1], base_offset, overflow_checks)} :
       Iterated(st)

RecExtendedSegmentAddress ==
  /\ Pulls("ExtendedSegmentAddress")
  /\ \E st \in {LoopBody(Cur, records[pos + 1], base_offset, overflow_checks)} :
       Iterated(st)

RecExtendedLinearAddress ==
  /\ Pulls("ExtendedLinearAddress")
  /\ \E st \in {LoopBody(Cur, records[pos + 1], base_offset, overflow_checks)} :
       Iterated(st)

RecEndOfFile ==
  /\ Pulls("EndOfFile")
  /\ \E st \in {LoopBody(Cur, records[pos + 1], base_offset, overflow_checks)} :
       Iterated(st)

RecStartAddress ==
  /\ Pulls("StartLinearAddress") \/ Pulls("StartSegmentAddress")
  /\ \E st \in {LoopBody(Cur, records[pos + 1], base_offset, overflow_checks)} :
       Iterated(st)

RecErr ==
  /\ Pulls("Err")
  /\ \E st \in {LoopBody(Cur, records[pos + 1], base_offset, overflow_checks)} :
       Iterated(st)

\* mutant: a sequence that ends without EndOfFile is an error
Exhausted_RequiresEndOfFile ==
  /\ pc = "loop"
  /\ pos = Len(records)
  /\ result' = Parsing("MissingEndOfFile")
  /\ pc' = "unpacked"
  /\ UNCHANGED <<records, pos, binary_size, binary, base_offset,
                 base_address, used_bytes, overflow_checks, ret>>

\* the iterator is exhausted: Ok(used_bytes)
Exhausted ==
  /\ pc = "loop"
  /\ pos = Len(records)
  /\ result' = Ok(used_bytes)
  /\ pc' = "unpacked"
  /\ UNCHANGED <<records, pos, binary_size, binary, base_offset,
                 base_address, used_bytes, overflow_checks, ret>>

\* mutant: the wrapper hands the buffer back with the error
Return_KeepsBuffer ==
  /\ pc = "unpacked"
  /\ pc' = "done"
  /\ ret' = IF result.tag = "Ok"
              THEN [tag |-> "Ok", binary |-> binary,
                    used_bytes |-> result.used_bytes]
              ELSE [tag |-> result.tag, binary |-> binary]
  /\ UNCHANGED <<records, pos, binary_size, binary, base_offset, base_address,
                 used_bytes, overflow_checks, result>>

\* the wrapper returns: Ok((binary, used_bytes)), or the error through `?`
\* (a panic unwinds); the buffer is moved into the result or dropped
Return ==
  /\ pc = "unpacked"
  /\ pc' = "done"
  /\ ret' = IF result.tag = "Ok"
              THEN [tag |-> "Ok", binary |-> binary,
                    used_bytes |-> result.used_bytes]
              ELSE result
  /\ binary' = <<>>
  /\ UNCHANGED <<records, pos, binary_size, base_offset, base_address,
                 used_bytes, overflow_checks, result>>

Next ==
  \/ to_vec
  \/ to_array
  \/ RecData
  \/ RecExtendedSegmentAddress
  \/ RecExtendedLinearAddress
  \/ RecEndOfFile
  \/ RecStartAddress
  \/ RecErr
  \/ Exhausted
  \/ Return

Spec == Init /\ [][Next]_vars

\* ------------------------------------------------- reference vocabulary
\* The properties below are stated over the integers, not over limbs.

\* the integer of small magnitude that the usize a is congruent to modulo
\* 2^64: a itself when it is below 2^31, a - 2^64 when it is 2^64 - 2^31 or more
IntOf(a) ==
  IF a[UsizeLimbs] = Limb - 1
    THEN 0 - ((Limb - 1 - a[1]) + (Limb - 1 - a[2]) * Limb + 1)
    ELSE a[1] + a[2] * Limb

\* the usize congruent to the integer x modulo 2^64, for |x| below 2^31
Mod64(x) ==
  IF x >= 0 THEN AsUsize(x)
  ELSE [i \in 1..UsizeLimbs |-> Limb - 1 - AsUsize(0 - x - 1)[i]]

\* the length of the buffer the call was given
BufLen == Len(binary)

\* the loop is about to pull a record of type t
AtRecord(t) ==
  /\ pc = "loop"
  /\ pos < Len(records)
  /\ records[pos + 1].type = t

NextRec == records[pos + 1]

\* the end address of the Data record about to be pulled, as the code
\* computes it: base_address + offset + length in usize arithmetic
NextEnd == IntOf(base_address) + NextRec.offset + Len(NextRec.value)

\* that end address is greater than the buffer length (a negative NextEnd
\* stands for a usize close to 2^64)
NextEndTooHigh == NextEnd < 0 \/ NextEnd > BufLen

\* C1: a Data record whose end address base_address + offset + length is
\* greater than the buffer length L stops the call with
\* AddressTooHigh(end, L), end including the current base address, and
\* leaves the buffer exactly as the records before it left it.
C1_AddressTooHighAtomic ==
  [][(AtRecord("Data") /\ NextEndTooHigh) =>
       /\ pc' = "unpacked"
       /\ result'.tag = "AddressTooHigh"
       /\ result'.addr = Mod64(NextEnd)
       /\ result'.size = AsUsize(BufLen)
       /\ binary' = binary]_vars

\* C1 witness: the call ended with AddressTooHigh at its second record, the
\* bytes of the Data record before it still in the buffer
C1_Witness ==
  /\ pc = "unpacked"
  /\ result.tag = "AddressTooHigh"
  /\ pos = 2
  /\ records[1].type = "Data"
  /\ binary # Filled(BufLen)

\* C2: a Data record whose computed end address is exactly the buffer
\* length L is accepted and fully written; one whose end address is L + 1
\* is rejected with AddressTooHigh(L + 1, L).
C2_BoundaryInclusive ==
  [][AtRecord("Data") =>
       /\ NextEnd = BufLen =>
            /\ pc' = "loop"
            /\ result' = Running
            /\ \A i \in 1..Len(NextRec.value) :
                 binary'[BufLen - Len(NextRec.value) + i] = NextRec.value[i]
       /\ NextEnd = BufLen + 1 =>
            /\ pc' = "unpacked"
            /\ result' = AddressTooHigh(AsUsize(BufLen + 1), AsUsize(BufLen))]_vars

\* the records of the sequence as the format defines them, over the
\* integers: the base address in force after the first k records is that
\* of the most recent base-setting record among them, 0 if there is none
IsBaseRecord(r) ==
  r.type \in {"ExtendedSegmentAddress", "ExtendedLinearAddress"}

Scale(r) == IF r.type = "ExtendedSegmentAddress" THEN 16 ELSE 65536

RECURSIVE RefBase(_)
RefBase(k) ==
  IF k = 0 THEN 0
  ELSE IF IsBaseRecord(records[k])
    THEN records[k].base * Scale(records[k]) - base_offset
  ELSE RefBase(k - 1)

\* the Data records of a successful call: those before the first EndOfFile
AppliedData ==
  {k \in 1..Len(records) :
     /\ records[k].type = "Data"
     /\ \A j \in 1..(k - 1) : records[j].type # "EndOfFile"}

RefStart(k) == RefBase(k - 1) + records[k].offset

\* the applied Data records that cover position p (counted from 0)
Covering(p) ==
  {k \in AppliedData :
     RefStart(k) <= p /\ p < RefStart(k) + Len(records[k].value)}

Last(ks) == CHOOSE k \in ks : \A j \in ks : j <= k

RECURSIVE SumLen(_)
SumLen(ks) ==
  IF ks = {} THEN 0
  ELSE Len(records[Last(ks)].value) + SumLen(ks \ {Last(ks)})

\* C3: after a successful call every buffer position covered by an applied
\* Data record holds the payload byte the last such record placed there,
\* byte i of a payload landing at base address + offset + i.
C3_LastWriteWins ==
  (pc = "unpacked" /\ result.tag = "Ok") =>
    \A p \in 0..(BufLen - 1) :
      Covering(p) # {} =>
        binary[p + 1] =
          records[Last(Covering(p))].value[p - RefStart(Last(Covering(p))) + 1]

\* C3 witness: a successful call in which a later Data record overwrote a
\* different byte of an earlier one
C3_Witness ==
  /\ pc = "unpacked"
  /\ result.tag = "Ok"
  /\ \E p \in 0..(BufLen - 1) :
       \E k \in Covering(p) :
          /\ k # Last(Covering(p))
          /\ records[k].value[p - RefStart(k) + 1] # binary[p + 1]

\* C4: on success used_bytes is the sum of the payload lengths of all
\* applied Data records, overlapping records counted in full.
C4_UsedBytesSum ==
  (pc = "unpacked" /\ result.tag = "Ok") =>
    /\ result.used_bytes = AsUsize(SumLen(AppliedData))
    /\ result.used_bytes = used_bytes

\* C4 witness: a successful call whose used_bytes exceeds the buffer length
C4_Witness ==
  /\ pc = "unpacked"
  /\ result.tag = "Ok"
  /\ IntOf(result.used_bytes) > BufLen
  /\ \E p \in 0..(BufLen - 1) : Cardinality(Covering(p)) = 2

\* C5: in the image to_vec and to_array return, every position that no
\* applied Data record covers holds the fill value 0xFF.
C5_UntouchedIsFill ==
  (pc = "done" /\ ret.tag = "Ok") =>
    \A p \in 0..(Len(ret.binary) - 1) :
      Covering(p) = {} => ret.binary[p + 1] = 255

\* C5 witness: a returned image with a written and an unwritten position
C5_Witness ==
  /\ pc = "done"
  /\ ret.tag = "Ok"
  /\ \E p, q \in 0..(Len(ret.binary) - 1) :
       /\ Covering(p) # {}
       /\ Covering(q) = {}
       /\ ret.binary[p + 1] # 255
       /\ ret.binary[q + 1] = 255

\* the base address is that of the most recent base-setting record pulled
BaseIsLatest ==
  (pc = "loop" /\ \E k \in 1..pos : IsBaseRecord(records[k])) =>
    base_address = Mod64(RefBase(pos))

\* C6: after an ExtendedLinearAddress(v) record the base address is
\* (v << 16) - base_offset, after an ExtendedSegmentAddress(v) record
\* (v << 4) - base_offset, in usize arithmetic; it comes from the most
\* recent base-setting record only, and the Data records that follow are
\* placed relative to it.
C6_BaseFromLatestRecord ==
  [][/\ BaseIsLatest'
     /\ (AtRecord("Data") /\ pc' = "loop") =>
          \A i \in 1..Len(NextRec.value) :
            binary'[RefBase(pos) + NextRec.offset + i] = NextRec.value[i]]_vars

\* C6 witness: two base-setting records of different kinds were pulled and
\* the base address is that of the second, not their sum
C6_Witness ==
  /\ pc = "loop"
  /\ pos = 2
  /\ records[1].type = "ExtendedLinearAddress"
  /\ records[1].base = 1
  /\ records[2].type = "ExtendedSegmentAddress"
  /\ records[2].base = 1
  /\ base_offset = 15
  /\ IntOf(base_address) = 1

\* the index of the first EndOfFile record of the sequence, 0 if none
FirstEOF ==
  IF \E k \in 1..Len(records) : records[k].type = "EndOfFile"
    THEN CHOOSE k \in 1..Len(records) :
           /\ records[k].type = "EndOfFile"
           /\ \A j \in 1..(k - 1) : records[j].type # "EndOfFile"
    ELSE 0

\* what unpack_records makes of the first n records alone
OfPrefix(n) ==
  unpack_records(SubSeq(records, 1, n), Filled(binary_size), base_offset,
                 overflow_checks)

\* C7: EndOfFile halts processing with success: when the records before
\* the first EndOfFile are processed without error, no later record is
\* pulled or applied and the result is Ok with the image and the used_bytes
\* those records left, whatever follows the EndOfFile.
C7_EndOfFileHalts ==
  (FirstEOF > 0 /\ OfPrefix(FirstEOF - 1).result.tag = "Ok") =>
    /\ pc = "unpacked" =>
         /\ pos = FirstEOF
         /\ result = Ok(OfPrefix(FirstEOF - 1).used_bytes)
         /\ binary = OfPrefix(FirstEOF - 1).binary
    /\ pc = "done" =>
         /\ pos = FirstEOF
         /\ ret = [tag |-> "Ok", binary |-> OfPrefix(FirstEOF - 1).binary,
                   used_bytes |-> OfPrefix(FirstEOF - 1).used_bytes]

\* C7 witness: the call returned Ok although a Data record that does not
\* fit the buffer, or a parse failure, follows the EndOfFile
C7_Witness ==
  /\ pc = "done"
  /\ ret.tag = "Ok"
  /\ FirstEOF > 0
  /\ FirstEOF < Len(records)
  /\ LET r == records[FirstEOF + 1]
     IN \/ r.type = "Err"
        \/ r.type = "Data" /\ r.offset + Len(r.value) > binary_size

\* C8: a parse failure pulled from the source ends the call with
\* Parsing(cause) carrying that failure, the buffer holding the writes of
\* the records before it exactly as applied.
C8_ParsingKeepsWrites ==
  [][AtRecord("Err") =>
       /\ pc' = "unpacked"
       /\ result' = Parsing(NextRec.err)
       /\ binary' = binary
       /\ binary' = OfPrefix(pos).binary]_vars

\* C8 witness: the call ended with Parsing after a Data record was written
C8_Witness ==
  /\ pc = "unpacked"
  /\ result.tag = "Parsing"
  /\ result.err = records[pos].err
  /\ records[1].type = "Data"
  /\ binary # Filled(binary_size)

IsStart(r) == r.type \in {"StartLinearAddress", "StartSegmentAddress"}

NotStart(r) == ~IsStart(r)

WithoutStart(recs) == SelectSeq(recs, NotStart)

\* there is a start-address record among the first n records
HasStart(n) == \E k \in 1..n : IsStart(records[k])

\* C9: StartLinearAddress and StartSegmentAddress records, wherever they
\* stand, leave the image, the base address and used_bytes unchanged and
\* processing continues: at every point of the loop and at its end, the call
\* is in the state in which the same records without the start-address
\* records put it.
C9_StartAddressIgnored ==
  /\ (pc = "loop" /\ HasStart(pos)) =>
       Cur = RunLoop(WithoutStart(SubSeq(records, 1, pos)), 0,
                     EntryState(Filled(binary_size)), base_offset,
                     overflow_checks)
  /\ (pc = "unpacked" /\ HasStart(Len(records))) =>
       Cur = unpack_records(WithoutStart(records), Filled(binary_size),
                            base_offset, overflow_checks)

\* C9 witness: a successful call that pulled a start-address record under
\* a base address other than 0
C9_Witness ==
  /\ pc = "unpacked"
  /\ result.tag = "Ok"
  /\ pos = 2
  /\ IsStart(records[2])
  /\ IsBaseRecord(records[1])
  /\ base_address # AsUsize(0)

\* the base-setting record about to be pulled
AtBaseRecord ==
  AtRecord("ExtendedSegmentAddress") \/ AtRecord("ExtendedLinearAddress")

\* C10: the base-address subtraction does not underflow: after a
\* base-setting record the base address is the non-negative integer
\* (v << shift) - base_offset, for every base_offset and every v.
C10_NoUnderflow ==
  [][AtBaseRecord =>
       LET x == NextRec.base * Scale(NextRec) - base_offset
       IN /\ pc' = "loop"
          /\ x >= 0
          /\ base_address' = AsUsize(x)]_vars

\* what the caller of to_vec / to_array holds after the call: the value
\* returned, and with it an image only if the value carries one
CallerHasImage == "binary" \in DOMAIN ret

\* C11 as stated: a caller of to_vec / to_array that receives AddressTooHigh
\* can still use the image as the records before the failing one left it.
C11_PartialImageAvailable ==
  (pc = "done" /\ ret.tag = "AddressTooHigh") =>
    /\ CallerHasImage
    /\ ret.binary = OfPrefix(pos - 1).binary

\* C11 amended: a caller of to_vec / to_array that receives AddressTooHigh
\* receives the error value (end address, buffer length) only; the buffer
\* the wrapper allocated is dropped with the call and nothing of the
\* partial image reaches the caller.
C11_ErrorOnly ==
  (pc = "done" /\ ret.tag = "AddressTooHigh") =>
    /\ ~CallerHasImage
    /\ DOMAIN ret = {"tag", "addr", "size"}
    /\ ret = result
    /\ binary = <<>>

\* C11 witness: the wrapper returned AddressTooHigh after an earlier Data
\* record had been written to the buffer
C11_Witness ==
  /\ pc = "done"
  /\ ret.tag = "AddressTooHigh"
  /\ pos = 2
  /\ records[1].type = "Data"
  /\ OfPrefix(1).binary # Filled(binary_size)

HasEndOfFile == \E k \in 1..Len(records) : records[k].type = "EndOfFile"

\* what unpack_records makes of the sequence followed by an EndOfFile
WithEndOfFile ==
  unpack_records(Append(records, [type |-> "EndOfFile"]), Filled(binary_size),
                 base_offset, overflow_checks)

\* no record of the sequence ends the loop: no parse failure, no address
\* too high, no panic
RunsThrough ==
  RunLoop(records, 0, EntryState(Filled(binary_size)), base_offset,
          overflow_checks).result = Running

\* C12: a sequence without EndOfFile that triggers no error is processed to
\* exhaustion and succeeds, with the image and the used_bytes of the same
\* sequence followed by EndOfFile.
C12_EndOfFileAdvisory ==
  (pc = "unpacked" /\ ~HasEndOfFile /\ RunsThrough) =>
    /\ pos = Len(records)
    /\ result.tag = "Ok"
    /\ Cur = WithEndOfFile

\* C12 witness: a call on a sequence without EndOfFile returned Ok after
\* writing a Data record
C12_Witness ==
  /\ pc = "unpacked"
  /\ ~HasEndOfFile
  /\ result.tag = "Ok"
  /\ Len(records) = 2
  /\ pos = 2
  /\ binary # Filled(binary_size)
  /\ IntOf(used_bytes) > 0

\* the Data record at index k is out of range: its end address as the code
\* computes it, base address + offset + length in usize arithmetic, is
\* greater than the buffer length
OutOfRange(k) ==
  /\ records[k].type = "Data"
  /\ LET e == RefBase(k - 1) + records[k].offset + Len(records[k].value)
     IN e < 0 \/ e > binary_size

\* the record at index k is a terminating record
Terminating(k) ==
  \/ records[k].type \in {"EndOfFile", "Err"}
  \/ OutOfRange(k)

\* the number of records the claim has pulled from the source: the index of
\* the first terminating record, the whole sequence if there is none
PulledByClaim ==
  IF \E k \in 1..Len(records) : Terminating(k)
    THEN CHOOSE k \in 1..Len(records) :
           Terminating(k) /\ \A j \in 1..(k - 1) : ~Terminating(j)
    ELSE Len(records)

\* C13: records are pulled in order, each at most once, and pulling stops
\* at the first terminating record (EndOfFile, parse failure or
\* out-of-range Data), which decides the outcome: the call has pulled the
\* records up to and including it, or all of them if there is none.
C13_StopsAtFirstTerminating ==
  pc \in {"unpacked", "done"} =>
    /\ pos = PulledByClaim
    /\ result.tag \in {"Ok", "Parsing", "AddressTooHigh"}
    /\ result.tag = "Parsing" <=> (pos > 0 /\ records[pos].type = "Err")
    /\ result.tag = "AddressTooHigh" <=> (pos > 0 /\ OutOfRange(pos))

\* C14: whenever a Data record passes the end-address check, every index
\* it writes lies in [0, L), also under a wrapped base address; the call
\* ends only by Ok, Parsing or AddressTooHigh, never by an out-of-bounds
\* access or an arithmetic abort.
C14_NoPanic ==
  [][/\ (AtRecord("Data") /\ ~NextEndTooHigh) =>
          /\ RefBase(pos) + NextRec.offset >= 0
          /\ result'.tag # "Panic"
     /\ pc' = "unpacked" => result'.tag \in {"Ok", "Parsing", "AddressTooHigh"}]_vars

\* no base-setting record among the first n records
NoBaseRecord(n) == \A k \in 1..n : ~IsBaseRecord(records[k])

\* the Data record pulled last was accepted and written
LastDataAccepted ==
  /\ pc \in {"loop", "unpacked"}
  /\ pos > 0
  /\ records[pos].type = "Data"
  /\ result.tag \in {"Running", "Ok"}

\* C15: until the first base-setting record the base address is 0 whatever
\* base_offset is: a Data record before it is written at exactly its 16-bit
\* offset, and a sequence with no base-setting record ends in the state in
\* which a call with base_offset 0 ends.
C15_BaseZeroUntilSet ==
  /\ (pc \in {"loop", "unpacked"} /\ NoBaseRecord(pos)) =>
       base_address = AsUsize(0)
  /\ (LastDataAccepted /\ NoBaseRecord(pos)) =>
       \A i \in 1..Len(records[pos].value) :
         binary[records[pos].offset + i] = records[pos].value[i]
  /\ (pc = "unpacked" /\ NoBaseRecord(Len(records))) =>
       Cur = unpack_records(records, Filled(binary_size), 0, overflow_checks)

\* C15 witness: with a base_offset other than 0, a Data record at offset 1
\* that no base-setting record precedes has been written at position 1.
C15_Witness ==
  /\ LastDataAccepted
  /\ NoBaseRecord(Len(records))
  /\ base_offset # 0
  /\ records[pos].offset = 1
  /\ Len(records[pos].value) = 1
  /\ binary[2] = records[pos].value[1]
  /\ binary[1] = FillByte

\* the buffer positions (counted from 1) outside [start, end) of the Data
\* record about to be pulled, start = base address + offset
OutsideNext ==
  {p \in 1..BufLen :
     \/ p <= IntOf(base_address) + NextRec.offset
     \/ p > NextEnd}

\* C16: the base address changes only on base-setting records; a Data
\* record changes nothing but the buffer positions [start, end) and, when
\* accepted, used_bytes; a base-setting record changes nothing but the base
\* address, buffer and used_bytes stay as they were, as they do on every
\* record that is not a Data record.
C16_Frame ==
  [][/\ base_address' # base_address => AtBaseRecord
     /\ AtRecord("Data") =>
          /\ Len(binary') = BufLen
          /\ \A p \in OutsideNext : binary'[p] = binary[p]
          /\ result'.tag = "Running" =>
               used_bytes' = Mod64(IntOf(used_bytes) + Len(NextRec.value))
     /\ AtBaseRecord =>
          /\ binary' = binary
          /\ used_bytes' = used_bytes
     /\ (pc = "loop" /\ ~AtRecord("Data")) =>
          /\ binary' = binary
          /\ used_bytes' = used_bytes]_vars

\* C16 witness: a base-setting record was pulled after a Data record had
\* been written; the buffer and used_bytes are those the Data record left
\* and the base address is no longer 0.
C16_Witness ==
  /\ pc = "loop"
  /\ pos = 2
  /\ records[1].type = "Data"
  /\ IsBaseRecord(records[2])
  /\ base_address # AsUsize(0)
  /\ binary # Filled(binary_size)
  /\ IntOf(used_bytes) = Len(records[1].value)
  /\ IntOf(used_bytes) > 0

\* the loop is about to pull a Data record with an empty payload
AtEmptyData == AtRecord("Data") /\ Len(NextRec.value) = 0

\* C17: a Data record with an empty payload is still bounds-checked: when
\* base_address + offset is greater than the buffer length L the call
\* stops with AddressTooHigh(base_address + offset, L), otherwise the
\* record is accepted and the loop goes on; either way the buffer and
\* used_bytes stay as they were.
C17_EmptyDataChecked ==
  [][AtEmptyData =>
       /\ binary' = binary
       /\ used_bytes' = used_bytes
       /\ IF NextEndTooHigh
            THEN /\ pc' = "unpacked"
                 /\ result' = AddressTooHigh(Mod64(NextEnd), AsUsize(BufLen))
            ELSE /\ pc' = "loop"
                 /\ pos' = pos + 1
                 /\ result' = Running]_vars

\* C17 witness: after ExtendedSegmentAddress(1) with base_offset 0 an empty
\* Data record at offset 0 stopped the call with AddressTooHigh(16, L).
C17_Witness ==
  /\ pc = "unpacked"
  /\ pos = 2
  /\ records[1] = [type |-> "ExtendedSegmentAddress", base |-> 1]
  /\ records[2] = [type |-> "Data", offset |-> 0, value |-> <<>>]
  /\ base_offset = 0
  /\ result = AddressTooHigh(AsUsize(16), AsUsize(binary_size))
  /\ binary = Filled(binary_size)
  /\ used_bytes = AsUsize(0)

\* what unpack_records yields on a buffer of binary_size bytes filled with
\* 0xFF
Delegate ==
  unpack_records(records, Filled(binary_size), base_offset, overflow_checks)

\* C18: to_vec and to_array only delegate: whichever was called with
\* (binary_size, base_offset), the buffer handed to unpack_records has
\* exactly binary_size bytes, and the call returns what unpack_records
\* yields on a binary_size-byte buffer filled with 0xFF: on Ok that image,
\* of length binary_size, with its used_bytes, otherwise its error.
C18_PureDelegation ==
  /\ pc \in {"loop", "unpacked"} => Len(binary) = binary_size
  /\ (pc = "loop" /\ pos = 0) => binary = Filled(binary_size)
  /\ pc = "done" =>
       \E d \in {Delegate} :
         IF d.result.tag = "Ok"
           THEN /\ ret = [tag |-> "Ok", binary |-> d.binary,
                          used_bytes |-> d.result.used_bytes]
                /\ Len(ret.binary) = binary_size
           ELSE ret = d.result

\* C18 witness: a call with binary_size 2 returned Ok with an image whose
\* first byte was written and whose second byte is the fill value.
C18_Witness ==
  /\ pc = "done"
  /\ ret.tag = "Ok"
  /\ binary_size = 2
  /\ Len(ret.binary) = 2
  /\ ret.binary[1] # FillByte
  /\ ret.binary[2] = FillByte
  /\ IntOf(ret.used_bytes) = 1

====
